---------------------------- MODULE Spec2Model ----------------------------
(***************************************************************************)
(* Model of the miknet fragment packer, src/src/mikpack.c:                 *)
(*   fragments, fragment_data_size, semi_fragment_data_size,               *)
(*   mikpack_mem_est and mikpack.                                          *)
(*                                                                         *)
(* A caller sizes a destination buffer with mikpack_mem_est(len) and then  *)
(* calls mikpack(pack, src, len, dest).  mikpack is modelled statement by  *)
(* statement: the argument check and set-up (lines 58-66), one action per  *)
(* iteration of the for loop (lines 68-79) and the return (line 81).       *)
(*                                                                         *)
(* `dest` is the destination pointer and `written` the contents mikpack    *)
(* has given the buffer behind it: a partial map from octet offsets to the *)
(* values stored, whose domain is exactly the set of offsets written in    *)
(* the call.  `src` is the payload pointer and `mem` the octets behind it  *)
(* (see Payloads).                                                         *)
(* `handle` is the mikpack_t behind `pack`, `handle0` its value at the     *)
(* call.                                                                   *)
(***************************************************************************)
EXTENDS Integers, Sequences, FiniteSets, TLC

(***************************************************************************)
(* Bounds of the model.                                                    *)
(***************************************************************************)
\* payload lengths 0..MaxLen are enumerated with every payload over Bytes
MaxLen == 9
\* identifiers mikid has handed out before the call: 0..MaxId
MaxId == 1
\* largest reference count a handle may hold before the call
MaxRef == 1

(***************************************************************************)
(* Program constants.                                                      *)
(***************************************************************************)
\* payload octets per fragment (miknet/mikpack.h; the value of the example
\* in the comment of fragments())
MIKPACK_FRAG_SIZE == 2
\* octets of a serialized mikmeta_t: id, type, part, size (miknet/mikmeta.h)
MIKMETA_SERIALIZED_OCTETS == 4
\* octets of the header in front of a fragment (miknet/mikpack.h)
MIKFRAG_HEADER_SIZE == MIKMETA_SERIALIZED_OCTETS
\* distance between two fragments in the buffer: header plus full payload
MIKPACK_REAL_FRAG_SIZE == MIKFRAG_HEADER_SIZE + MIKPACK_FRAG_SIZE
\* number of values of a uint16_t
UINT16_MOD == 2 ^ 16

MIK_ERR == 0 - 1
MIK_JOIN == 0
MIK_QUIT == 1
MIK_DATA == 2

MIKERR_NONE == 0
MIKERR_BAD_PTR == 0 - 1
\* value of `ret` while mikpack has not returned
PENDING == MIKERR_NONE + 1

\* pointers
NULL == "NULL"
HANDLE == "handle"
SRC == "src"
DEST == "dest"
STALE == "stale"

\* octet values of the payloads that are enumerated
Bytes == {0, 1}

\* payload lengths whose fragment count does not fit a uint16_t
WideLens == {UINT16_MOD * MIKPACK_FRAG_SIZE, UINT16_MOD * MIKPACK_FRAG_SIZE + 1}

\* the payload lengths a caller passes
Lens == (0 .. MaxLen) \cup WideLens

\* the payloads of l octets a caller passes, each given by the sequence
\* `mem` that, repeated, fills the l octets behind src: every sequence of
\* l octets for the enumerated lengths (mem is then the payload itself), a
\* short repeated pattern for the wide ones
Payloads(l) ==
  IF l <= MaxLen THEN [1 .. l -> Bytes]
  ELSE [1 .. MIKPACK_FRAG_SIZE + 1 -> Bytes]

VARIABLES pc, pack, handle, handle0, src, mem, len, dest, written, est,
          frags, remainder, metadata, offset, id_next, ret

vars == <<pc, pack, handle, handle0, src, mem, len, dest, written, est,
          frags, remainder, metadata, offset, id_next, ret>>

(***************************************************************************)
(* fragments(len, &remainder), lines 12-20.  The count is a uint16_t: the  *)
(* quotient is truncated on assignment and ++frags wraps.                  *)
(***************************************************************************)
fragments(l) ==
  LET q == (l \div MIKPACK_FRAG_SIZE) % UINT16_MOD
      r == l % MIKPACK_FRAG_SIZE
  IN  [frags |-> IF r # 0 THEN (q + 1) % UINT16_MOD ELSE q, remainder |-> r]

\* fragment_data_size(frags), lines 26-29
fragment_data_size(fr) == fr * MIKPACK_FRAG_SIZE

\* semi_fragment_data_size(len), lines 35-38
semi_fragment_data_size(l) == l + MIKFRAG_HEADER_SIZE

\* mikpack_mem_est(len), lines 40-49
mikpack_mem_est(l) ==
  LET f == fragments(l)
      m == fragment_data_size(f.frags)
  IN  IF f.remainder # 0 \/ l = 0
        THEN m + semi_fragment_data_size(f.remainder)
        ELSE m

\* the argument check without the test of len
bad_ptr_no_len(p, s, l, d) == p = NULL \/ s = NULL \/ d = NULL

\* the argument check of mikpack, line 58
bad_ptr(p, s, l, d) == p = NULL \/ s = NULL \/ l = 0 \/ d = NULL

\* the binding without the reset of the reference count
bind_keep_count(h, d) == [h EXCEPT !.data = d]

\* pack->ref_count = 0; pack->data = dest;  lines 61-62
bind(h, d) == [h EXCEPT !.ref_count = 0, !.data = d]

\* the metadata with the type left at the zero value of miktype_t
new_metadata_no_type(id) == [id |-> id, type |-> MIK_JOIN, part |-> 0, size |-> 0]

\* metadata.id = mikid(); metadata.type = MIK_DATA;  lines 64-65, and
\* metadata.part = 0 of the for statement, line 68
new_metadata(id) == [id |-> id, type |-> MIK_DATA, part |-> 0, size |-> 0]

\* the offset at the stride of the payload alone, without the header
frag_offset_no_header(part) == part * MIKPACK_FRAG_SIZE

\* offset = metadata.part * MIKPACK_REAL_FRAG_SIZE, line 69.  offset is a
\* uint32_t; part is below 2^16, so with this stride the product fits.
frag_offset(part) == part * MIKPACK_REAL_FRAG_SIZE

\* src + metadata.part * MIKPACK_FRAG_SIZE, line 77
src_offset(part) == part * MIKPACK_FRAG_SIZE

\* metadata.size of the fragment `part` of `fr`, lines 70-73
frag_size(part, fr, rem) ==
  IF part = fr - 1 /\ rem # 0 THEN rem ELSE MIKPACK_FRAG_SIZE

\* mikmeta_serialize(&metadata, out): the octets of the header
mikmeta_serialize(m) == <<m.id, m.type, m.part, m.size>>

\* storing the octets `vals` at offsets off, off+1, ... of buffer `buf`
store(buf, off, vals) ==
  [i \in DOMAIN buf \cup (off .. off + Len(vals) - 1) |->
     IF i >= off /\ i < off + Len(vals) THEN vals[i - off + 1] ELSE buf[i]]

\* src[i]: octet i (from 0) of the payload that `s` fills by repetition
payload_octet(s, i) == s[(i % Len(s)) + 1]

\* memcpy source: `n` octets of the payload `s` starting at octet `from`
load(s, from, n) == [i \in 1 .. n |-> payload_octet(s, from + i - 1)]

(***************************************************************************)
(* State at the call of mikpack.  The caller has picked the arguments, the *)
(* handle holds whatever it held before (it may be uninitialized), mikid   *)
(* has handed out id_next identifiers so far, and the caller has sized the *)
(* destination buffer with mikpack_mem_est(len).                           *)
(***************************************************************************)
Init ==
  /\ pc = "called"
  /\ pack \in {NULL, HANDLE}
  /\ src \in {NULL, SRC}
  /\ dest \in {NULL, DEST}
  /\ len \in Lens
  /\ handle \in [ref_count : 0 .. MaxRef, data : {NULL, STALE}]
  /\ handle0 = handle
  /\ IF src = NULL THEN mem = <<>> ELSE mem \in Payloads(len)
  /\ est = mikpack_mem_est(len)
  /\ written = <<>>
  /\ frags = 0
  /\ remainder = 0
  /\ metadata = new_metadata(0)
  /\ offset = 0
  /\ id_next \in 0 .. MaxId
  /\ ret = PENDING

(***************************************************************************)
(* mikpack, lines 58-66: the argument check, then the set-up.              *)
(***************************************************************************)
mikpack_enter ==
  /\ pc = "called"
  /\ IF bad_ptr(pack, src, len, dest)
       THEN /\ ret' = MIKERR_BAD_PTR
            /\ pc' = "done"
            /\ UNCHANGED <<handle, metadata, frags, remainder, id_next>>
       ELSE /\ handle' = bind(handle, dest)
            /\ metadata' = new_metadata(id_next)
            /\ id_next' = id_next + 1
            /\ frags' = fragments(len).frags
            /\ remainder' = fragments(len).remainder
            /\ pc' = "loop"
            /\ UNCHANGED ret
  /\ UNCHANGED <<pack, handle0, src, mem, len, dest, written, est, offset>>

(***************************************************************************)
(* mikpack, lines 68-79: one iteration of the for loop.                    *)
(***************************************************************************)
mikpack_loop ==
  /\ pc = "loop"
  /\ metadata.part < frags
  /\ LET off == frag_offset(metadata.part)
         m   == [metadata EXCEPT
                   !.size = frag_size(metadata.part, frags, remainder)]
         hdr == store(written, off, mikmeta_serialize(m))
     IN  /\ offset' = off
         /\ written' = store(hdr, off + MIKMETA_SERIALIZED_OCTETS,
                             load(mem, src_offset(m.part), m.size))
         /\ metadata' = [m EXCEPT !.part = (m.part + 1) % UINT16_MOD]
  /\ UNCHANGED <<pc, pack, handle, handle0, src, mem, len, dest, est,
                 frags, remainder, id_next, ret>>

(***************************************************************************)
(* mikpack, lines 68 and 81: the loop condition fails, return success.     *)
(***************************************************************************)
mikpack_return ==
  /\ pc = "loop"
  /\ ~ (metadata.part < frags)
  /\ ret' = MIKERR_NONE
  /\ pc' = "done"
  /\ UNCHANGED <<pack, handle, handle0, src, mem, len, dest, written, est,
                 frags, remainder, metadata, offset, id_next>>

Next == mikpack_enter \/ mikpack_loop \/ mikpack_return

Spec == Init /\ [][Next]_vars

TypeOK ==
  /\ pc \in {"called", "loop", "done"}
  /\ len \in Lens
  /\ id_next \in 0 .. MaxId + 1
  /\ handle.ref_count \in 0 .. MaxRef

(***************************************************************************)
(* Vocabulary of the properties.                                           *)
(***************************************************************************)
\* mikpack has returned MIKERR_NONE
Success == pc = "done" /\ ret = MIKERR_NONE

\* mikpack has passed the argument check
Accepted == pc = "loop" \/ Success

\* ceil(l / MIKPACK_FRAG_SIZE)
CeilDiv(l) == (l + MIKPACK_FRAG_SIZE - 1) \div MIKPACK_FRAG_SIZE

\* one past the highest offset of the destination buffer written so far
Extent ==
  IF DOMAIN written = {} THEN 0
  ELSE (CHOOSE i \in DOMAIN written : \A j \in DOMAIN written : j <= i) + 1

\* the octet at offset i of the destination buffer, NoOctet if never written
NoOctet == 0 - 2
Octet(i) == IF i \in DOMAIN written THEN written[i] ELSE NoOctet

\* the fields of the header of fragment i, read back from the buffer
HdrId(i) == Octet(i * MIKPACK_REAL_FRAG_SIZE)
HdrType(i) == Octet(i * MIKPACK_REAL_FRAG_SIZE + 1)
HdrPart(i) == Octet(i * MIKPACK_REAL_FRAG_SIZE + 2)
HdrSize(i) == Octet(i * MIKPACK_REAL_FRAG_SIZE + 3)

\* the payload of fragment i, read back from the buffer: the HdrSize(i)
\* octets that follow its header
FragPayload(i) ==
  [k \in 1 .. HdrSize(i) |->
     Octet(i * MIKPACK_REAL_FRAG_SIZE + MIKMETA_SERIALIZED_OCTETS + k - 1)]

\* the payloads of the fragments 0 .. n-1 concatenated in part order
RECURSIVE Reassemble(_)
Reassemble(n) ==
  IF n = 0 THEN <<>> ELSE Reassemble(n - 1) \o FragPayload(n - 1)

\* the sum of the sizes in the headers of the fragments 0 .. n-1
RECURSIVE SizeSum(_)
SizeSum(n) == IF n = 0 THEN 0 ELSE SizeSum(n - 1) + HdrSize(n - 1)

(***************************************************************************)
(* C1.  For every payload length, mikpack_mem_est(len) equals the number   *)
(* of octets mikpack writes into the destination buffer for a payload of   *)
(* that length: the end offset of the last fragment written.               *)
(***************************************************************************)
C1_EstimateEqualsWritten == Success => est = Extent

(***************************************************************************)
(* C2.  A destination buffer of mikpack_mem_est(len) octets suffices:      *)
(* every octet mikpack writes lies at an offset below mikpack_mem_est(len).*)
(***************************************************************************)
C2_WritesBelowEstimate == \A i \in DOMAIN written : i < est

(***************************************************************************)
(* C3.  The fragment count computed for len octets is 1 when len = 0, k    *)
(* when len is the k-th multiple (k >= 1) of MIKPACK_FRAG_SIZE, and        *)
(* floor(len / MIKPACK_FRAG_SIZE) + 1 otherwise.                           *)
(***************************************************************************)
C3_FragmentCount ==
  fragments(len).frags =
    IF len = 0 THEN 1
    ELSE IF len % MIKPACK_FRAG_SIZE = 0 THEN len \div MIKPACK_FRAG_SIZE
    ELSE len \div MIKPACK_FRAG_SIZE + 1

(***************************************************************************)
(* C4.  mikpack_mem_est(len) satisfies the stride invariant: with N the    *)
(* fragment count and stride = header + full payload, it is stride * N     *)
(* when len is a non-zero multiple of the payload size and                 *)
(* stride * (N-1) + header + remainder otherwise; the header alone for     *)
(* len = 0.                                                                *)
(***************************************************************************)
C4_StrideInvariant ==
  LET N == IF len = 0 THEN 1 ELSE CeilDiv(len)
      stride == MIKFRAG_HEADER_SIZE + MIKPACK_FRAG_SIZE
  IN  est = IF len # 0 /\ len % MIKPACK_FRAG_SIZE = 0
              THEN stride * N
              ELSE stride * (N - 1)
                     + MIKFRAG_HEADER_SIZE + (len % MIKPACK_FRAG_SIZE)

(***************************************************************************)
(* C5.  Whenever the handle, the payload or the destination is absent or   *)
(* len = 0, mikpack returns an error code and has mutated nothing: the     *)
(* handle, the destination buffer and the identifier generator are as      *)
(* they were at the call.                                                  *)
(***************************************************************************)
C5_BadArgsRejectedUnmutated ==
  [][(pc = "called" /\ (pack = NULL \/ src = NULL \/ dest = NULL \/ len = 0))
       => /\ pc' = "done"
          /\ ret' # MIKERR_NONE
          /\ ret' = MIKERR_BAD_PTR
          /\ handle' = handle /\ handle' = handle0
          /\ written' = written /\ written' = <<>>
          /\ id_next' = id_next]_vars

C5_Witness ==
  /\ pc = "done"
  /\ ret = MIKERR_BAD_PTR
  /\ pack = HANDLE /\ src = SRC /\ dest = DEST /\ len = 0
  /\ handle.ref_count > 0 /\ handle.data = STALE
  /\ written = <<>>

(***************************************************************************)
(* C6.  On every successful mikpack of len >= 1 octets into N fragments,   *)
(* the headers carry the parts 0 .. N-1 in destination order, every        *)
(* fragment but the last has the full payload size, the last has           *)
(* len mod MIKPACK_FRAG_SIZE if that is non-zero and the full size         *)
(* otherwise, and the sizes sum to len.                                    *)
(***************************************************************************)
C6_PartsAndSizes ==
  (Success /\ len >= 1) =>
    /\ \A i \in 0 .. frags - 1 :
         /\ HdrPart(i) = i
         /\ HdrSize(i) =
              IF i = frags - 1 /\ len % MIKPACK_FRAG_SIZE # 0
                THEN len % MIKPACK_FRAG_SIZE
                ELSE MIKPACK_FRAG_SIZE
    /\ SizeSum(frags) = len

(***************************************************************************)
(* C7.  Round trip: for a payload of 1 .. 4 * MIKPACK_FRAG_SIZE octets,    *)
(* the payloads read back behind the headers at part * stride,             *)
(* concatenated in part order, are the payload octet for octet, and every  *)
(* header is still the header of its own part.                             *)
(***************************************************************************)
C7_RoundTrip ==
  (Success /\ len \in 1 .. 4 * MIKPACK_FRAG_SIZE) =>
    /\ Reassemble(CeilDiv(len)) = mem
    /\ \A i \in 0 .. CeilDiv(len) - 1 : HdrPart(i) = i

C7_Witness ==
  /\ Success
  /\ len = 4 * MIKPACK_FRAG_SIZE - 1
  /\ \E i, j \in 1 .. len : mem[i] # mem[j]
  /\ Reassemble(CeilDiv(len)) = mem

(***************************************************************************)
(* C8.  After every successful mikpack the handle has reference count 0    *)
(* and its data pointer is the destination buffer the caller passed,       *)
(* whatever the handle held before.                                        *)
(***************************************************************************)
C8_HandleBound ==
  Success => handle.ref_count = 0 /\ handle.data = dest /\ dest = DEST

C8_Witness ==
  /\ Success
  /\ len > MIKPACK_FRAG_SIZE
  /\ Extent > MIKPACK_REAL_FRAG_SIZE
  /\ handle0.ref_count > 0 /\ handle0.data = STALE
  /\ handle = [ref_count |-> 0, data |-> DEST]

(***************************************************************************)
(* C9.  One successful mikpack allocates exactly one identifier; every     *)
(* header it writes carries that identifier and the type MIK_DATA; the     *)
(* type MIK_ERR is never written to the destination buffer.                *)
(***************************************************************************)
C9_OneIdDataType ==
  /\ [](Accepted =>
          /\ id_next = metadata.id + 1
          /\ \A i \in 0 .. metadata.part - 1 :
               HdrId(i) = metadata.id /\ HdrType(i) = MIK_DATA
          /\ \A i \in DOMAIN written :
               i % MIKPACK_REAL_FRAG_SIZE = 1 => written[i] # MIK_ERR)
  /\ [][/\ (pc = "called" /\ pc' = "loop") =>
             id_next' = id_next + 1 /\ metadata'.id = id_next
        /\ pc = "loop" =>
             id_next' = id_next /\ metadata'.id = metadata.id]_vars

C9_Witness ==
  /\ Success
  /\ metadata.part >= 3
  /\ metadata.id > 0
  /\ \A i \in 0 .. metadata.part - 1 :
       HdrId(i) = metadata.id /\ HdrType(i) = MIK_DATA

(***************************************************************************)
(* C10.  For every len >= 1 that mikpack accepts, the fragment count of    *)
(* the packing loop is ceil(len / MIKPACK_FRAG_SIZE): the 16-bit count     *)
(* does not wrap, so all len octets are packed.                            *)
(***************************************************************************)
C10_CountDoesNotWrap == Accepted => frags = CeilDiv(len)

=============================================================================
